---------------------------- MODULE Spec2Model ----------------------------
(***************************************************************************)
(* A model of the recursive-descent JSON parser of examples/json.rs.       *)
(*                                                                         *)
(* A character is a one-character string, a text is a sequence of          *)
(* characters.  The Peekable<I> cursor is the sequence of characters not   *)
(* yet consumed: peek() is its head, next() drops the head.                *)
(*                                                                         *)
(* The lexical productions (parse_ws, parse_char, parse_string,            *)
(* parse_number, parse_keyword) are operators from the cursor to the       *)
(* produced text and the cursor left.  The structural productions          *)
(* (parse, parse_element, parse_value, parse_object, parse_members,        *)
(* parse_member, parse_array, parse_elements) are run step by step on an   *)
(* explicit call stack, so that a loop that never ends is a cycle of the   *)
(* state graph and not a divergent evaluation.                             *)
(***************************************************************************)
EXTENDS Integers, Sequences, FiniteSets, TLC

VARIABLES
    todo,      \* the texts still to be parsed, each by a Parser of its own
    results,   \* the Document Values returned so far, in order
    chars,     \* Parser.chars: the characters not yet consumed
    stack,     \* the call stack of the running parse, innermost frame last
    ret,       \* the value returned by the call that finished last
    numtext,   \* parse_number's local `string`, as of its last call
    status,    \* "idle" | "running" | "done" | "abort" | "oom"
    src        \* how the texts of this run were derived (never changes)

vars == <<todo, results, chars, stack, ret, numtext, status, src>>

-----------------------------------------------------------------------------
(* Bounds of the model.                                                    *)

\* The longest text of the exhaustive family of texts.
MaxLen == 4
\* The number of nodes (values) of the largest generated JSON document.
MaxNodes == 3
\* The longest token sequence of the family of raw token sequences.
MaxTokens == 4
\* The longest bareword of the family of barewords.
MaxWord == 4
\* The memory of the process: the number of times the allocator lets a Vec
\* double its smallest capacity.
MaxDoublings == 1

-----------------------------------------------------------------------------
(* Characters.                                                             *)

Quote == "\""
Backslash == "\\"

Digits == {"0", "1", "2", "3", "4", "5", "6", "7", "8", "9"}

Letters ==
    {"a", "b", "c", "d", "e", "f", "g", "h", "i", "j", "k", "l", "m",
     "n", "o", "p", "q", "r", "s", "t", "u", "v", "w", "x", "y", "z", "E"}

\* The characters the model knows, in ascending code point order.
Ascii ==
    << "\t", "\n", " ", "\"", "+", ",", "-", ".",
       "0", "1", "2", "3", "4", "5", "6", "7", "8", "9", ":", "E",
       "[", "\\", "]",
       "a", "b", "c", "d", "e", "f", "g", "h", "i", "j", "k", "l", "m",
       "n", "o", "p", "q", "r", "s", "t", "u", "v", "w", "x", "y", "z",
       "{", "}" >>

\* char::is_digit(10)
IsDigit(ch) == ch \in Digits

\* char::is_alphanumeric
IsAlphanumeric(ch) == ch \in Letters \cup Digits

\* char::is_whitespace
IsWhitespace(ch) == ch \in {" ", "\t", "\n"}

\* char::is_control
IsControl(ch) == ch \in {"\t", "\n"}

\* The place of a character in the order of code points.
CharOrd(ch) == CHOOSE i \in 1..Len(Ascii) : Ascii[i] = ch

\* str's Ord: texts compare lexicographically by code point.
RECURSIVE StrLess(_, _)
StrLess(a, b) ==
    IF b = <<>> THEN FALSE
    ELSE IF a = <<>> THEN TRUE
    ELSE IF Head(a) = Head(b) THEN StrLess(Tail(a), Tail(b))
    ELSE CharOrd(Head(a)) < CharOrd(Head(b))

Has(text, ch) == \E i \in 1..Len(text) : text[i] = ch

Drop(s, n) == SubSeq(s, n + 1, Len(s))
Take(s, n) == SubSeq(s, 1, n)

-----------------------------------------------------------------------------
(* The Document Value (enum JSON).  Every variant is a record with the     *)
(* same two fields; v is the payload, the empty tuple when there is none.  *)

JObject(m) == [t |-> "Object", v |-> m]
JArray(a)  == [t |-> "Array", v |-> a]
JString(s) == [t |-> "String", v |-> s]
JNumber(n) == [t |-> "Number", v |-> n]
JTrue      == [t |-> "True", v |-> <<>>]
JFalse     == [t |-> "False", v |-> <<>>]
JNull      == [t |-> "Null", v |-> <<>>]

(* What the productions that return no Document Value return, in the same  *)
(* shape: the JSONMap of parse_object, the Vec of parse_array and the pair *)
(* of parse_member.                                                        *)
RMap(m)       == [t |-> "JSONMap", v |-> m]
RVec(a)       == [t |-> "Vec", v |-> a]
RPair(k, val) == [t |-> "Pair", v |-> <<k, val>>]

(* JSONMap = BTreeMap<String, JSON>: the entries <<key, value>> in         *)
(* ascending key order.                                                    *)
MapNew == <<>>

MapKeys(m) == {m[i][1] : i \in 1..Len(m)}

MapGet(m, k) == LET i == CHOOSE j \in 1..Len(m) : m[j][1] = k IN m[i][2]

\* Variant: the entry of an equal key is kept (the first value stays).
RECURSIVE MapInsertKeepFirst(_, _, _)
MapInsertKeepFirst(m, k, val) ==
    IF m = <<>> THEN << <<k, val>> >>
    ELSE IF Head(m)[1] = k THEN m
    ELSE IF StrLess(k, Head(m)[1]) THEN << <<k, val>> >> \o m
    ELSE << Head(m) >> \o MapInsertKeepFirst(Tail(m), k, val)

\* Variant: every insert adds an entry (an equal key is not looked for).
MapInsertAppend(m, k, val) == Append(m, <<k, val>>)

\* BTreeMap::insert: the entry of an equal key is replaced, a new key is
\* put at its place in the order.
RECURSIVE MapInsert(_, _, _)
MapInsert(m, k, val) ==
    IF m = <<>> THEN << <<k, val>> >>
    ELSE IF Head(m)[1] = k THEN << <<k, val>> >> \o Tail(m)
    ELSE IF StrLess(k, Head(m)[1]) THEN << <<k, val>> >> \o m
    ELSE << Head(m) >> \o MapInsert(Tail(m), k, val)

-----------------------------------------------------------------------------
(* The lexical productions.  Each returns the cursor it leaves in `rest`.  *)

\* The length of the longest prefix of s whose characters are all in S.
RECURSIVE RunIn(_, _)
RunIn(s, S) ==
    IF s # <<>> /\ Head(s) \in S THEN 1 + RunIn(Tail(s), S) ELSE 0

\* The length of the longest prefix of s that holds no character of S.
RECURSIVE RunNotIn(_, _)
RunNotIn(s, S) ==
    IF s # <<>> /\ Head(s) \notin S THEN 1 + RunNotIn(Tail(s), S) ELSE 0

\* parse_ws: drop characters while they are whitespace or control.
RECURSIVE ParseWs(_)
ParseWs(s) ==
    IF s # <<>> /\ (IsWhitespace(Head(s)) \/ IsControl(Head(s)))
    THEN ParseWs(Tail(s))
    ELSE s

\* parse_char: drop the next character if it is ch.
ParseChar(s, ch) ==
    IF s # <<>> /\ Head(s) = ch
    THEN [ok |-> TRUE, rest |-> Tail(s)]
    ELSE [ok |-> FALSE, rest |-> s]

\* The length of the longest prefix of s up to a quote that no backslash
\* stands before.
RECURSIVE EscapedRun(_)
EscapedRun(s) ==
    IF s = <<>> \/ Head(s) = Quote THEN 0
    ELSE IF Head(s) = Backslash /\ Len(s) >= 2 THEN 2 + EscapedRun(Drop(s, 2))
    ELSE 1 + EscapedRun(Tail(s))

\* Variant: a backslash protects the character after it.
ParseStringEscapes(s) ==
    LET open == ParseChar(s, Quote)
        body == open.rest
        n    == IF open.ok
                THEN EscapedRun(body)
                ELSE RunIn(body, Letters \cup Digits)
    IN  [out |-> Take(body, n), rest |-> ParseChar(Drop(body, n), Quote).rest]

\* parse_string: after an opening quote everything up to the next quote,
\* otherwise the run of alphanumeric characters; then a quote if present.
ParseString(s) ==
    LET open == ParseChar(s, Quote)
        body == open.rest
        n    == IF open.ok
                THEN RunNotIn(body, {Quote})
                ELSE RunIn(body, Letters \cup Digits)
    IN  [out |-> Take(body, n), rest |-> ParseChar(Drop(body, n), Quote).rest]

\* parse_keyword: skip whitespace, then the run of alphanumeric characters.
ParseKeyword(s) ==
    LET body == ParseWs(s)
        n    == RunIn(body, Letters \cup Digits)
    IN  [out |-> Take(body, n), rest |-> Drop(body, n)]

\* parse_number up to the conversion: the text it reconstructs in `string`.
\* Each of the seven steps looks at the cursor the step before left.
ParseNumberText(s) ==
    LET minus == ParseChar(s, "-")
        s1    == minus.rest
        n1    == RunIn(s1, Digits)
        s2    == Drop(s1, n1)
        dot   == ParseChar(s2, ".")
        s3    == dot.rest
        n2    == RunIn(s3, Digits)
        s4    == Drop(s3, n2)
        mark  == s4 # <<>> /\ Head(s4) \in {"e", "E"}
        s5    == IF mark THEN Tail(s4) ELSE s4
        sign  == s5 # <<>> /\ Head(s5) \in {"-", "+"}
        s6    == IF sign THEN Tail(s5) ELSE s5
        n3    == RunIn(s6, Digits)
    IN  [out |->      (IF minus.ok THEN <<"-">> ELSE <<>>)
                   \o Take(s1, n1)
                   \o (IF dot.ok THEN <<".">> ELSE <<>>)
                   \o Take(s3, n2)
                   \o (IF mark THEN <<"e">> ELSE <<>>)
                   \o (IF sign THEN <<Head(s5)>> ELSE <<>>)
                   \o Take(s6, n3),
         rest |-> Drop(s6, n3)]


(* Natural numbers of any size, for the conversion below: a Big is the     *)
(* sequence of its digits in base Base, lowest first, without a zero at    *)
(* its high end (zero is the empty sequence).  The operators split their   *)
(* argument in halves, so that they nest only as deep as its logarithm.    *)

Base == 10000

\* The element of a set of one element.  Only({f(x) : x \in {e}}) is f(e),
\* with e evaluated once, before f is.
Only(S) == CHOOSE x \in S : TRUE

\* The digits of a * m + c as long as a, and the carry out of the highest,
\* for a factor m and a carry c below Base.
RECURSIVE MulAddCarry(_, _, _)
MulAddCarry(a, m, c) ==
    IF a = <<>> THEN [v |-> <<>>, c |-> c]
    ELSE IF Len(a) = 1
    THEN [v |-> <<(a[1] * m + c) % Base>>, c |-> (a[1] * m + c) \div Base]
    ELSE Only({
             Only({ [v |-> lo.v \o hi.v, c |-> hi.c] :
                    hi \in {MulAddCarry(SubSeq(a, Len(a) \div 2 + 1, Len(a)), m, lo.c)} }) :
             lo \in {MulAddCarry(SubSeq(a, 1, Len(a) \div 2), m, c)} })

\* a * m + c
BigMulAdd(a, m, c) ==
    Only({ IF r.c = 0 THEN r.v ELSE Append(r.v, r.c) : r \in {MulAddCarry(a, m, c)} })

\* a >= b: by length, then by the highest digit they differ in.
BigGE(a, b) ==
    IF Len(a) # Len(b) THEN Len(a) > Len(b)
    ELSE \A i \in 1..Len(a) :
             a[i] >= b[i] \/ \E j \in (i + 1)..Len(a) : a[j] # b[j]

\* a without the zeros at its high end.
BigTrim(a) ==
    IF \A i \in 1..Len(a) : a[i] = 0 THEN <<>>
    ELSE SubSeq(a, 1, CHOOSE i \in 1..Len(a) :
                          a[i] # 0 /\ \A j \in (i + 1)..Len(a) : a[j] = 0)

\* The digits of a - b - borrow as long as a, and the borrow out of the
\* highest; b is read as zero beyond its end.
RECURSIVE SubBorrow(_, _, _)
SubBorrow(a, b, borrow) ==
    IF a = <<>> THEN [v |-> <<>>, c |-> borrow]
    ELSE IF Len(a) = 1
    THEN Only({ IF t < 0 THEN [v |-> <<t + Base>>, c |-> 1] ELSE [v |-> <<t>>, c |-> 0] :
                t \in {a[1] - (IF b = <<>> THEN 0 ELSE b[1]) - borrow} })
    ELSE Only({
             Only({ [v |-> lo.v \o hi.v, c |-> hi.c] :
                    hi \in {SubBorrow(SubSeq(a, Len(a) \div 2 + 1, Len(a)),
                                      SubSeq(b, Len(a) \div 2 + 1, Len(b)), lo.c)} }) :
             lo \in {SubBorrow(SubSeq(a, 1, Len(a) \div 2),
                               IF Len(b) <= Len(a) \div 2 THEN b
                               ELSE SubSeq(b, 1, Len(a) \div 2), borrow)} })

\* a - b, for a >= b
BigSub(a, b) == Only({ BigTrim(r.v) : r \in {SubBorrow(a, b, 0)} })

\* a * 2^k
RECURSIVE BigShift(_, _)
BigShift(a, k) ==
    IF k <= 13 THEN BigMulAdd(a, 2 ^ k, 0)
    ELSE Only({ BigShift(h, k - k \div 2) : h \in {BigShift(a, k \div 2)} })

DigitVal(ch) == CharOrd(ch) - CharOrd("0")

\* The number a run of decimal digits writes (a run that starts with no
\* zero): four digits of the run make one digit of the Big.
BigFromDigits(ds) ==
    [i \in 1..((Len(ds) + 3) \div 4) |->
        LET j == Len(ds) - 4 * (i - 1)
            digit(k) == IF k >= 1 THEN DigitVal(ds[k]) ELSE 0
        IN  digit(j) + 10 * digit(j - 1) + 100 * digit(j - 2) + 1000 * digit(j - 3)]

\* a * 10^k, for a # 0
BigPow10(a, k) == [i \in 1..(k \div 4) |-> 0] \o BigMulAdd(a, 10 ^ (k % 4), 0)

(* An f64 is kept as its sign and the two numbers of its bit pattern: the  *)
(* value is mant * 2^exp, with 2^52 <= mant < 2^53 and -1074 <= exp <= 971 *)
(* for a normal number, exp = -1074 and mant < 2^52 for a subnormal number *)
(* and for zero, and exp = 972 with mant = 2^52 for an infinity.  Two      *)
(* floats have the same bits exactly when they are the same record.        *)

F64(neg, mant, exp) == [neg |-> neg, mant |-> mant, exp |-> exp]

\* 2^52 = 4503599627370496 and 2^53 = 9007199254740992
Two52 == <<496, 2737, 5996, 4503>>
Two53 == <<992, 5474, 1992, 9007>>

F64Zero(neg) == F64(neg, <<>>, -1074)
F64Infinity(neg) == F64(neg, Two52, 972)

\* 1.0, 2.0 and 3.0 (3 * 2^51 = 6755399441055744)
F64One == F64(FALSE, Two52, -52)
F64Two == F64(FALSE, Two52, -51)
F64Three == F64(FALSE, <<5744, 4105, 3994, 6755>>, -51)

\* a / b brought into [1, 2) by doubling one of the two: the value a / b of
\* the call is (s.a / s.b) * 2^(s.x - x).
RECURSIVE Scale(_, _, _)
Scale(a, b, x) ==
    IF BigGE(a, b)
    THEN Only({ IF BigGE(a, b2) THEN Scale(a, b2, x + 1)
                                ELSE [a |-> a, b |-> b, x |-> x] :
                b2 \in {BigMulAdd(b, 2, 0)} })
    ELSE Only({ Scale(a2, b, x - 1) : a2 \in {BigMulAdd(a, 2, 0)} })

\* One more bit of the quotient st.q, by long division of the remainder
\* st.r (below b) by b.
BitStep(st, b) ==
    Only({ IF BigGE(r2, b) THEN [q |-> BigMulAdd(st.q, 2, 1), r |-> BigSub(r2, b)]
                           ELSE [q |-> BigMulAdd(st.q, 2, 0), r |-> r2] :
           r2 \in {BigMulAdd(st.r, 2, 0)} })

\* k more bits.
RECURSIVE Bits(_, _, _)
Bits(st, b, k) ==
    IF k = 0 THEN st
    ELSE IF k = 1 THEN BitStep(st, b)
    ELSE Only({ Bits(h, b, k - k \div 2) : h \in {Bits(st, b, k \div 2)} })

\* ds without the zeros it starts with.
StripZerosLeft(ds) ==
    IF \A i \in 1..Len(ds) : ds[i] = "0" THEN <<>>
    ELSE SubSeq(ds, CHOOSE i \in 1..Len(ds) :
                        ds[i] # "0" /\ \A j \in 1..(i - 1) : ds[j] = "0",
                Len(ds))

\* ds * 10^e10 as a quotient of two Bigs scaled into [1, 2), with the power
\* of two taken out of it.  The number is at least 10^(e10 + Len(ds) - 1):
\* the power of two at or below that is taken out before Scale does the
\* rest.
ScaleDecimal(ds, e10) ==
    Only({ IF x0 >= 0
           THEN Only({ Scale(n, d, x0) :
                       n \in {BigPow10(BigFromDigits(ds), IF e10 > 0 THEN e10 ELSE 0)},
                       d \in {BigShift(BigPow10(<<1>>, IF e10 < 0 THEN 0 - e10 ELSE 0), x0)} })
           ELSE Only({ Scale(n, d, x0) :
                       n \in {BigShift(BigPow10(BigFromDigits(ds),
                                                IF e10 > 0 THEN e10 ELSE 0), 0 - x0)},
                       d \in {BigPow10(<<1>>, IF e10 < 0 THEN 0 - e10 ELSE 0)} }) :
           x0 \in {((e10 + Len(ds) - 1) * 33219) \div 10000} })

\* The quotient of p bits rounded to the nearest, ties to the even one.
RoundQuotient(neg, s, p) ==
    Only({ Only({ IF q = Two53 THEN F64(neg, Two52, s.x - p + 2)
                               ELSE F64(neg, q, s.x - p + 1) :
                  q \in { IF \/ ~BigGE(s.b, r2)
                             \/ r2 = s.b /\ div.q[1] % 2 = 1
                          THEN BigMulAdd(div.q, 1, 1)
                          ELSE div.q :
                          r2 \in {BigMulAdd(div.r, 2, 0)} } }) :
           div \in {Bits([q |-> <<1>>, r |-> BigSub(s.a, s.b)], s.b, p - 1)} })

\* The f64 nearest to (s.a / s.b) * 2^s.x: 53 bits of the quotient, or as
\* many as are left above 2^-1074.
NearestF64(neg, s) ==
    IF s.x < -1075 THEN F64Zero(neg)
    ELSE IF s.x = -1075
    THEN (IF BigGE(s.b, s.a) THEN F64Zero(neg) ELSE F64(neg, <<1>>, -1074))
    ELSE Only({ IF f.exp > 971 THEN F64Infinity(neg) ELSE f :
                f \in {RoundQuotient(neg, s, IF s.x < -1022 THEN s.x + 1075 ELSE 53)} })

\* The f64 nearest to ds * 10^e10 (ties to the even mantissa), for a run of
\* digits ds that starts with no zero: an infinity from 2^1024 - 2^970 on,
\* zero up to 2^-1075.
DecimalToF64(neg, ds, e10) ==
    IF ds = <<>> THEN F64Zero(neg)
    ELSE IF e10 + Len(ds) > 309 THEN F64Infinity(neg)
    ELSE IF e10 + Len(ds) <= -324 THEN F64Zero(neg)
    ELSE Only({ NearestF64(neg, s) : s \in {ScaleDecimal(ds, e10)} })

\* The exponent a run of digits writes: a digit is taken in only while the
\* value read so far is below ExpCap (0x10000), the digits after are skipped.
ExpCap == 65536

RECURSIVE ToNat(_, _)
ToNat(ds, acc) ==
    IF ds = <<>> \/ acc >= ExpCap THEN acc
    ELSE ToNat(Tail(ds), 10 * acc + DigitVal(Head(ds)))

Exponent(ds) == ToNat(StripZerosLeft(ds), 0)

(* f64::from_str on the text parse_number reconstructs (characters of      *)
(* -+.e and digits).  The text is a float literal when it reads            *)
(*   Sign? (Digit+ | Digit+ '.' Digit* | Digit* '.' Digit+) ('e' Sign? Digit+)? *)
(* and nothing else; its value is the f64 nearest to the decimal number it *)
(* writes.                                                                 *)

\* The parts of a text read as a float literal: whether it is one, its
\* sign, the digits of its integer and fraction parts, and its exponent.
FloatParts(text) ==
    LET neg    == text # <<>> /\ Head(text) = "-"
        t1     == IF text # <<>> /\ Head(text) \in {"-", "+"} THEN Tail(text) ELSE text
        ni     == RunIn(t1, Digits)
        t3     == ParseChar(Drop(t1, ni), ".").rest
        nf     == RunIn(t3, Digits)
        t4     == Drop(t3, nf)
        hasExp == t4 # <<>> /\ Head(t4) \in {"e", "E"}
        t5     == IF hasExp THEN Tail(t4) ELSE t4
        eneg   == t5 # <<>> /\ Head(t5) = "-"
        t6     == IF t5 # <<>> /\ Head(t5) \in {"-", "+"} THEN Tail(t5) ELSE t5
        ne     == RunIn(t6, Digits)
    IN  [ok     |-> /\ ni + nf > 0
                    /\ IF hasExp THEN ne > 0 /\ Drop(t6, ne) = <<>> ELSE t4 = <<>>,
         neg    |-> neg,
         digits |-> Take(t1, ni) \o Take(t3, nf),
         nf     |-> nf,
         eneg   |-> eneg,
         edigits |-> IF hasExp THEN Take(t6, ne) ELSE <<>>]

IsFloatLiteral(text) == FloatParts(text).ok

FloatFromStr(text) ==
    Only({ IF ~p.ok THEN [ok |-> FALSE, val |-> F64Zero(FALSE)]
           ELSE Only({ [ok |-> TRUE, val |-> DecimalToF64(p.neg, ds, ex - p.nf)] :
                       ds \in {StripZerosLeft(p.digits)},
                       ex \in {IF p.eneg THEN 0 - Exponent(p.edigits)
                                         ELSE Exponent(p.edigits)} }) :
           p \in {FloatParts(text)} })

-----------------------------------------------------------------------------
(* The call stack.  A frame is one activation of a structural production:  *)
(* fn names it, pc is the place it has reached, and object, array and key  *)
(* are its locals (empty where the production has none).                   *)

Frame(fn, pc) ==
    [fn |-> fn, pc |-> pc, object |-> MapNew, array |-> <<>>, key |-> <<>>]

Top == stack[Len(stack)]
Pop == SubSeq(stack, 1, Len(stack) - 1)

\* The stack with its top frame replaced by f.
SetTop(f) == Pop \o <<f>>

\* The stack with its top frame replaced by f and a call of fn on top.
Call(f, fn) == Pop \o <<f, Frame(fn, "start")>>

Running(fn, pc) ==
    /\ status = "running"
    /\ stack # <<>>
    /\ Top.fn = fn
    /\ Top.pc = pc

-----------------------------------------------------------------------------
(* main: a Parser is made for the next text and parse is called on it.     *)

NewParser ==
    /\ status = "idle"
    /\ todo # <<>>
    /\ chars' = Head(todo)
    /\ todo' = Tail(todo)
    /\ stack' = <<Frame("parse", "start")>>
    /\ status' = "running"
    /\ UNCHANGED <<results, ret, numtext, src>>

\* parse: calls parse_element ...
Parse ==
    /\ Running("parse", "start")
    /\ stack' = Call([Top EXCEPT !.pc = "ret"], "parse_element")
    /\ UNCHANGED <<todo, results, chars, ret, numtext, status, src>>

\* ... and returns what it returned.
ParseReturn ==
    /\ Running("parse", "ret")
    /\ stack' = Pop
    /\ results' = Append(results, ret)
    /\ status' = IF todo = <<>> THEN "done" ELSE "idle"
    /\ UNCHANGED <<todo, chars, ret, numtext, src>>

\* parse_element: skip whitespace and call parse_value ...
ParseElement ==
    /\ Running("parse_element", "start")
    /\ chars' = ParseWs(chars)
    /\ stack' = Call([Top EXCEPT !.pc = "value"], "parse_value")
    /\ UNCHANGED <<todo, results, ret, numtext, status, src>>

\* ... then skip whitespace, drop a comma if there is one, return the value.
ParseElementReturn ==
    /\ Running("parse_element", "value")
    /\ chars' = ParseChar(ParseWs(chars), ",").rest
    /\ stack' = Pop
    /\ UNCHANGED <<todo, results, ret, numtext, status, src>>

\* Variant: a bareword that starts with a keyword is taken for it.
KeywordValuePrefix(keyword) ==
    IF Len(keyword) >= 4 /\ Take(keyword, 4) = <<"t", "r", "u", "e">> THEN JTrue
    ELSE IF Len(keyword) >= 5 /\ Take(keyword, 5) = <<"f", "a", "l", "s", "e">> THEN JFalse
    ELSE IF Len(keyword) >= 4 /\ Take(keyword, 4) = <<"n", "u", "l", "l">> THEN JNull
    ELSE JString(keyword)

\* The value of a bareword: the three keywords, or the text as a String.
KeywordValue(keyword) ==
    IF keyword = <<"t", "r", "u", "e">> THEN JTrue
    ELSE IF keyword = <<"f", "a", "l", "s", "e">> THEN JFalse
    ELSE IF keyword = <<"n", "u", "l", "l">> THEN JNull
    ELSE JString(keyword)

\* parse_value: the next character selects the production.  The lexical
\* productions run to their end here; parse_object and parse_array are
\* called.  A text parse_number reconstructs that is no float literal
\* panics (unwrap), which ends the program.
ParseValue ==
    /\ Running("parse_value", "start")
    /\ IF chars = <<>> THEN
           /\ ret' = JNull
           /\ stack' = Pop
           /\ UNCHANGED <<chars, numtext, status>>
       ELSE IF Head(chars) = "{" THEN
           /\ stack' = Call([Top EXCEPT !.pc = "object"], "parse_object")
           /\ UNCHANGED <<chars, ret, numtext, status>>
       ELSE IF Head(chars) = "[" THEN
           /\ stack' = Call([Top EXCEPT !.pc = "array"], "parse_array")
           /\ UNCHANGED <<chars, ret, numtext, status>>
       ELSE IF Head(chars) = Quote THEN
           \E string \in {ParseString(chars)} :
               /\ ret' = JString(string.out)
               /\ chars' = string.rest
               /\ stack' = Pop
               /\ UNCHANGED <<numtext, status>>
       ELSE IF Head(chars) = "-" \/ IsDigit(Head(chars)) THEN
           \E num \in {ParseNumberText(chars)} :
               \E f \in {FloatFromStr(num.out)} :
                   /\ numtext' = num.out
                   /\ chars' = num.rest
                   /\ IF f.ok
                      THEN /\ ret' = JNumber(f.val)
                           /\ stack' = Pop
                           /\ UNCHANGED status
                      ELSE /\ status' = "abort"
                           /\ UNCHANGED <<ret, stack>>
       ELSE
           \E keyword \in {ParseKeyword(chars)} :
               /\ ret' = KeywordValue(keyword.out)
               /\ chars' = keyword.rest
               /\ stack' = Pop
               /\ UNCHANGED <<numtext, status>>
    /\ UNCHANGED <<todo, results, src>>

\* parse_value, back from parse_object or parse_array: wrap what it built.
ParseValueReturn ==
    /\ status = "running"
    /\ stack # <<>>
    /\ Top.fn = "parse_value"
    /\ Top.pc \in {"object", "array"}
    /\ ret' = IF Top.pc = "object" THEN JObject(ret.v) ELSE JArray(ret.v)
    /\ stack' = Pop
    /\ UNCHANGED <<todo, results, chars, numtext, status, src>>

\* parse_object: a new map, and the opening brace dropped if present.
ParseObject ==
    /\ Running("parse_object", "start")
    /\ chars' = ParseChar(chars, "{").rest
    /\ stack' = SetTop([Top EXCEPT !.object = MapNew, !.pc = "loop"])
    /\ UNCHANGED <<todo, results, ret, numtext, status, src>>

\* Variant: the end of the text inside an object is an error.
ParseMembersStrict ==
    /\ Running("parse_object", "loop")
    /\ chars' = ParseWs(chars)
    /\ IF chars' = <<>>
       THEN status' = "abort" /\ UNCHANGED stack
       ELSE /\ stack' = IF Head(chars') = "}"
                        THEN SetTop([Top EXCEPT !.pc = "exit"])
                        ELSE Call([Top EXCEPT !.pc = "insert"], "parse_member")
            /\ UNCHANGED status
    /\ UNCHANGED <<todo, results, ret, numtext, src>>

\* parse_members, the head of parse_object's loop: skip whitespace; at the
\* end of the text or at a closing brace the loop is left, otherwise
\* parse_member is called.
ParseMembers ==
    /\ Running("parse_object", "loop")
    /\ chars' = ParseWs(chars)
    /\ stack' = IF chars' = <<>> \/ Head(chars') = "}"
                THEN SetTop([Top EXCEPT !.pc = "exit"])
                ELSE Call([Top EXCEPT !.pc = "insert"], "parse_member")
    /\ UNCHANGED <<todo, results, ret, numtext, status, src>>

\* Variant: no whitespace is skipped between the key and the colon.
ParseMemberNoWs ==
    /\ Running("parse_member", "start")
    /\ \E k \in {ParseString(ParseWs(chars))} :
           /\ chars' = ParseChar(k.rest, ":").rest
           /\ stack' = Call([Top EXCEPT !.key = k.out, !.pc = "value"],
                            "parse_element")
    /\ UNCHANGED <<todo, results, ret, numtext, status, src>>

\* Variant: a member without a colon is an error.
ParseMemberStrictColon ==
    /\ Running("parse_member", "start")
    /\ \E k \in {ParseString(ParseWs(chars))} :
           \E colon \in {ParseChar(ParseWs(k.rest), ":")} :
               /\ chars' = colon.rest
               /\ IF colon.ok
                  THEN /\ stack' = Call([Top EXCEPT !.key = k.out, !.pc = "value"],
                                        "parse_element")
                       /\ UNCHANGED status
                  ELSE status' = "abort" /\ UNCHANGED stack
    /\ UNCHANGED <<todo, results, ret, numtext, src>>

\* parse_member: the key by parse_string, a colon dropped if present, and
\* parse_element called for the value ...
ParseMember ==
    /\ Running("parse_member", "start")
    /\ \E k \in {ParseString(ParseWs(chars))} :
           /\ chars' = ParseChar(ParseWs(k.rest), ":").rest
           /\ stack' = Call([Top EXCEPT !.key = k.out, !.pc = "value"],
                            "parse_element")
    /\ UNCHANGED <<todo, results, ret, numtext, status, src>>

\* ... then a comma dropped if present, and the pair returned.
ParseMemberReturn ==
    /\ Running("parse_member", "value")
    /\ chars' = ParseChar(chars, ",").rest
    /\ ret' = RPair(Top.key, ret)
    /\ stack' = Pop
    /\ UNCHANGED <<todo, results, numtext, status, src>>

\* parse_object's loop body: object.insert(key, value).
ParseObjectInsert ==
    /\ Running("parse_object", "insert")
    /\ stack' = SetTop([Top EXCEPT
                          !.object = MapInsert(Top.object, ret.v[1], ret.v[2]),
                          !.pc = "loop"])
    /\ UNCHANGED <<todo, results, chars, ret, numtext, status, src>>

\* parse_object after its loop: a closing brace dropped if present, and the
\* map returned.
ParseObjectReturn ==
    /\ Running("parse_object", "exit")
    /\ chars' = ParseChar(chars, "}").rest
    /\ ret' = RMap(Top.object)
    /\ stack' = Pop
    /\ UNCHANGED <<todo, results, numtext, status, src>>

\* parse_array: a new Vec, and the opening bracket dropped if present.
ParseArray ==
    /\ Running("parse_array", "start")
    /\ chars' = ParseChar(chars, "[").rest
    /\ stack' = SetTop([Top EXCEPT !.array = <<>>, !.pc = "loop"])
    /\ UNCHANGED <<todo, results, ret, numtext, status, src>>

\* parse_elements, the head of parse_array's loop.
ParseElements ==
    /\ Running("parse_array", "loop")
    /\ chars' = ParseWs(chars)
    /\ stack' = IF chars' = <<>> \/ Head(chars') = "]"
                THEN SetTop([Top EXCEPT !.pc = "exit"])
                ELSE Call([Top EXCEPT !.pc = "push"], "parse_element")
    /\ UNCHANGED <<todo, results, ret, numtext, status, src>>

\* Vec's growth.  A Vec of Document Values is made without a buffer; a push
\* that finds the buffer full asks for one of twice the capacity, and of
\* MinNonZeroCap elements the first time.
MinNonZeroCap == 4

RECURSIVE CapacityFrom(_, _)
CapacityFrom(n, cap) == IF cap >= n THEN cap ELSE CapacityFrom(n, 2 * cap)

\* The capacity of a Vec that n pushes have filled.
VecCapacity(n) == IF n = 0 THEN 0 ELSE CapacityFrom(n, MinNonZeroCap)

\* The largest buffer, in elements, the allocator has memory for.
Memory == MinNonZeroCap * 2 ^ MaxDoublings

\* parse_array's loop body: array.push(value).  A push that has to grow
\* the Vec beyond the memory fails in the allocator, which aborts the
\* process (status "oom"): no value is returned, and it is not the panic of
\* parse_number (status "abort").
ParseArrayPush ==
    /\ Running("parse_array", "push")
    /\ \E len \in {Len(Top.array)} :
         \E cap \in {VecCapacity(len)} :
           IF len < cap \/ (IF cap = 0 THEN MinNonZeroCap ELSE 2 * cap) <= Memory
           THEN /\ stack' = SetTop([Top EXCEPT !.array = Append(Top.array, ret),
                                              !.pc = "loop"])
                /\ UNCHANGED status
           ELSE /\ status' = "oom"
                /\ UNCHANGED stack
    /\ UNCHANGED <<todo, results, chars, ret, numtext, src>>

\* parse_array after its loop.
ParseArrayReturn ==
    /\ Running("parse_array", "exit")
    /\ chars' = ParseChar(chars, "]").rest
    /\ ret' = RVec(Top.array)
    /\ stack' = Pop
    /\ UNCHANGED <<todo, results, numtext, status, src>>

Next ==
    \/ NewParser
    \/ Parse
    \/ ParseReturn
    \/ ParseElement
    \/ ParseElementReturn
    \/ ParseValue
    \/ ParseValueReturn
    \/ ParseObject
    \/ ParseMembers
    \/ ParseMember
    \/ ParseMemberReturn
    \/ ParseObjectInsert
    \/ ParseObjectReturn
    \/ ParseArray
    \/ ParseElements
    \/ ParseArrayPush
    \/ ParseArrayReturn

-----------------------------------------------------------------------------
(* The texts a run starts from.                                            *)

\* All texts of length at most n over the characters of S.
RECURSIVE Texts(_, _)
Texts(S, n) ==
    IF n = 0 THEN {<<>>}
    ELSE LET shorter == Texts(S, n - 1)
         IN  shorter \cup {<<c>> \o t : c \in S, t \in {u \in shorter : Len(u) = n - 1}}

\* The characters of the exhaustive family: the structural characters, a
\* quote, a backslash, a minus, a digit, a letter and a space.
Sigma == {"{", "}", "[", "]", ":", ",", Quote, Backslash, "-", "1", "a", " "}

Start(texts, how) ==
    /\ todo = texts
    /\ results = <<>>
    /\ chars = <<>>
    /\ stack = <<>>
    /\ ret = JNull
    /\ numtext = <<>>
    /\ status = "idle"
    /\ src = how

\* Every text of at most MaxLen characters of Sigma, parsed alone.
Init ==
    \E text \in Texts(Sigma, MaxLen) :
        Start(<<text>>, [kind |-> "text", texts |-> <<text>>])

Spec == Init /\ [][Next]_vars

\* The program runs to completion in its thread: a step that can be taken
\* is taken.
FairSpec == Spec /\ WF_vars(Next)


-----------------------------------------------------------------------------
(* JSON documents as they are written.  A document is a tree of the same   *)
(* shape as a Document Value, except that an Object lists its members in   *)
(* source order (a key may come twice), a String holds the characters      *)
(* between its quotes and a Number holds its literal with the f64 the      *)
(* literal denotes.                                                        *)

DObject(ms)      == [t |-> "Object", v |-> ms]
DArray(ds)       == [t |-> "Array", v |-> ds]
DString(text)    == [t |-> "String", v |-> text]
DNumber(l, val)  == [t |-> "Number", v |-> <<l, val>>]
DTrue            == [t |-> "True", v |-> <<>>]
DFalse           == [t |-> "False", v |-> <<>>]
DNull            == [t |-> "Null", v |-> <<>>]

\* The tokens of a document, in order: structural characters, quoted texts,
\* number literals and keywords.
Quoted(text) == <<Quote>> \o text \o <<Quote>>

RECURSIVE DocTokens(_)
RECURSIVE ItemTokens(_, _)
\* The tokens of the items (elements, or members when obj), comma-separated.
ItemTokens(items, obj) ==
    IF items = <<>> THEN <<>>
    ELSE    (IF obj THEN <<Quoted(Head(items)[1]), <<":">>>> \o DocTokens(Head(items)[2])
                    ELSE DocTokens(Head(items)))
         \o (IF Len(items) > 1 THEN << <<",">> >> ELSE <<>>)
         \o ItemTokens(Tail(items), obj)

DocTokens(d) ==
    IF d.t = "Object" THEN << <<"{">> >> \o ItemTokens(d.v, TRUE) \o << <<"}">> >>
    ELSE IF d.t = "Array" THEN << <<"[">> >> \o ItemTokens(d.v, FALSE) \o << <<"]">> >>
    ELSE IF d.t = "String" THEN <<Quoted(d.v)>>
    ELSE IF d.t = "Number" THEN <<d.v[1]>>
    ELSE IF d.t = "True" THEN << <<"t", "r", "u", "e">> >>
    ELSE IF d.t = "False" THEN << <<"f", "a", "l", "s", "e">> >>
    ELSE << <<"n", "u", "l", "l">> >>

\* The tokens written one after the other, with the text ws after token i
\* for every i of gaps.
RECURSIVE Spaced(_, _, _, _)
Spaced(tokens, gaps, ws, i) ==
    IF i > Len(tokens) THEN <<>>
    ELSE tokens[i] \o (IF i \in gaps THEN ws ELSE <<>>) \o Spaced(tokens, gaps, ws, i + 1)

Written(tokens) == Spaced(tokens, {}, <<>>, 1)

\* The text of a document, without whitespace.
Render(d) == Written(DocTokens(d))

\* The tokens with every separator token (colon, comma) made a space.
NoSeparators(tokens) ==
    [i \in 1..Len(tokens) |->
        IF tokens[i] \in {<<":">>, <<",">>} THEN <<" ">> ELSE tokens[i]]

\* How many closing delimiters end the token sequence.
RECURSIVE Closers(_)
Closers(tokens) ==
    IF tokens # <<>> /\ tokens[Len(tokens)] \in {<<"}">>, <<"]">>}
    THEN 1 + Closers(Take(tokens, Len(tokens) - 1))
    ELSE 0

\* The Document Value a document denotes: arrays in source order, objects
\* with every key once, in key order, with the value of its last member.
RECURSIVE Sem(_)
Sem(d) ==
    IF d.t = "Array" THEN JArray([i \in 1..Len(d.v) |-> Sem(d.v[i])])
    ELSE IF d.t = "Object" THEN
        LET keys    == {d.v[i][1] : i \in 1..Len(d.v)}
            rank(k) == 1 + Cardinality({j \in keys : StrLess(j, k)})
            last(k) == CHOOSE i \in 1..Len(d.v) :
                           /\ d.v[i][1] = k
                           /\ \A j \in (i + 1)..Len(d.v) : d.v[j][1] # k
        IN  JObject([n \in 1..Cardinality(keys) |->
                        LET k == CHOOSE x \in keys : rank(x) = n
                        IN  <<k, Sem(d.v[last(k)][2])>>])
    ELSE IF d.t = "Number" THEN JNumber(d.v[2])
    ELSE d

\* The texts between quotes (Strings and keys) of a document.
RECURSIVE DocTexts(_)
DocTexts(d) ==
    IF d.t = "String" THEN {d.v}
    ELSE IF d.t = "Array" THEN UNION {DocTexts(d.v[i]) : i \in 1..Len(d.v)}
    ELSE IF d.t = "Object"
         THEN UNION {{d.v[i][1]} \cup DocTexts(d.v[i][2]) : i \in 1..Len(d.v)}
    ELSE {}

\* All documents of exactly n nodes with the given leaves and keys.
RECURSIVE DocsOfSize(_, _, _)
RECURSIVE ElementSeqs(_, _, _)
RECURSIVE MemberSeqs(_, _, _)
ElementSeqs(leaves, keys, n) ==
    IF n = 0 THEN {<<>>}
    ELSE UNION {{<<d>> \o rest : d \in DocsOfSize(leaves, keys, k),
                                 rest \in ElementSeqs(leaves, keys, n - k)}
                : k \in 1..n}

MemberSeqs(leaves, keys, n) ==
    IF n = 0 THEN {<<>>}
    ELSE UNION {{<< <<key, d>> >> \o rest : key \in keys,
                                           d \in DocsOfSize(leaves, keys, k),
                                           rest \in MemberSeqs(leaves, keys, n - k)}
                : k \in 1..n}

DocsOfSize(leaves, keys, n) ==
    IF n = 1 THEN leaves \cup {DArray(<<>>), DObject(<<>>)}
    ELSE {DArray(ds) : ds \in ElementSeqs(leaves, keys, n - 1)}
         \cup {DObject(ms) : ms \in MemberSeqs(leaves, keys, n - 1)}

Docs(leaves, keys, n) == UNION {DocsOfSize(leaves, keys, k) : k \in 1..n}

One == DNumber(<<"1">>, F64One)

\* -1.50E+2 is -150, that is -5277655813324800 * 2^-45.
Scientific ==
    DNumber(<<"-", "1", ".", "5", "0", "E", "+", "2">>,
            F64(TRUE, <<4800, 1332, 6558, 5277>>, -45))

\* The JSON string "\"": an escaped quote between the quotes.
EscapedQuote == DString(<<Backslash, Quote>>)

\* The leaves and keys of the documents parsed alone ...
Leaves == {One, Scientific, DString(<<"a">>), EscapedQuote, DTrue, DNull}
Keys == {<<"a">>, <<"b">>}

\* ... and of the documents parsed beside a variant of theirs.
FewLeaves == {One, DString(<<"a">>), EscapedQuote}
FewKeys == {<<"a">>}

\* [1,[2,3],{"x":[]}]
NestedDoc ==
    DArray(<< One,
              DArray(<<DNumber(<<"2">>, F64Two), DNumber(<<"3">>, F64Three)>>),
              DObject(<< <<<<"x">>, DArray(<<>>)>> >>) >>)

\* The document of main, and its text as main writes it.
MainDoc ==
    DObject(<<
        << <<"o", Backslash, "n", "b", "j", "e", "c", "t">>,
           DObject(<< << <<"k", "e", "y">>, DString(<<"v", "a", "l", "u", "e">>) >> >>) >>,
        << <<"a", "r", "r", "a", "y">>,
           DArray(<<One, DNumber(<<"2">>, F64Two)>>) >>,
        << <<"s", "t", "r", "i", "n", "g">>,
           DString(<<"t", "h", "i", "s", " ", "i", "s", " ", "a", " ",
                     Backslash, "n", "s", "t", "r", "i", "n", "g">>) >>,
        << <<"n", "u", "m", "b", "e", "r">>,
           \* the f64 nearest to 3.14 is 7070651414971679 * 2^-51
           DNumber(<<"3", ".", "1", "4">>,
                   F64(FALSE, <<1679, 1497, 6514, 7070>>, -51)) >>,
        << <<"t", "r", "u", "e">>, DTrue >>,
        << <<"f", "a", "l", "s", "e">>, DFalse >>,
        << <<"n", "u", "l", "l">>, DNull >> >>)

MainText ==
    << "\n", "{", "\n", "\"", "o", "\\", "n", "b", "j", "e", "c", "t",
       "\"", ":", " ", "{", "\"", "k", "e", "y", "\"", ":", " ", "\"", "v",
       "a", "l", "u", "e", "\"", "}", ",", "\n", "\"", "a", "r", "r", "a",
       "y", "\"", ":", " ", "[", "1", ",", " ", "2", "]", ",", "\n", "\"",
       "s", "t", "r", "i", "n", "g", "\"", ":", " ", "\"", "t", "h", "i",
       "s", " ", "i", "s", " ", "a", " ", "\\", "n", "s", "t", "r", "i",
       "n", "g", "\"", ",", "\n", "\"", "n", "u", "m", "b", "e", "r", "\"",
       ":", " ", "3", ".", "1", "4", ",", "\n", "\"", "t", "r", "u", "e",
       "\"", ":", " ", "t", "r", "u", "e", ",", "\n", "\"", "f", "a", "l",
       "s", "e", "\"", ":", " ", "f", "a", "l", "s", "e", ",", "\n", "\"",
       "n", "u", "l", "l", "\"", ":", " ", "n", "u", "l", "l", "\n", "\n",
       "}", "\n" >>

\* A document is plain when no text between its quotes holds a quote (no
\* escaped quote).
Plain(d) == \A text \in DocTexts(d) : ~Has(text, Quote)

\* The whitespace put between tokens.
WsTexts == {<<" ">>, <<"\n", "\t">>}

\* The places (after token i) whitespace is put at: one place, every place,
\* or every place but one.
GapSets(n) ==
    {{i} : i \in 1..(n - 1)} \cup {(1..(n - 1)) \ {i} : i \in 0..(n - 1)}

\* The tokens of the raw token sequences: no closing delimiter, so that
\* every sequence is parsed to the end of the text.
RawTokens ==
    {<<"{">>, <<"[">>, <<":">>, <<",">>, Quoted(<<"a">>), <<"1">>, <<"a">>}

\* Two tokens that written side by side read as one (or as other tokens).
Merge(a, b) ==
    /\ a \in {<<"1">>, <<"a">>}
    /\ b \in {<<"1">>, <<"a">>}

RawSeqs ==
    {ts \in Texts(RawTokens, MaxTokens) :
        \A i \in 1..(Len(ts) - 1) : ~Merge(ts[i], ts[i + 1])}

\* A document parsed alone; a document and the same with whitespace between
\* tokens, without its separators, or without some of its last closing
\* delimiters; a raw token sequence and the same with whitespace.
InitDoc ==
    \/ \E d \in Docs(Leaves, Keys, MaxNodes) \cup {NestedDoc} :
           Start(<<Render(d)>>, [kind |-> "doc", texts |-> <<Render(d)>>, doc |-> d])
    \/ Start(<<MainText>>, [kind |-> "doc", texts |-> <<MainText>>, doc |-> MainDoc])
    \/ \E d \in Docs(FewLeaves, FewKeys, MaxNodes) :
           \E t \in LET tokens == DocTokens(d) IN
                  {[kind |-> "ws", text |-> Spaced(tokens, g, ws, 1)] :
                       g \in GapSets(Len(tokens)), ws \in WsTexts}
                  \cup {[kind |-> "nosep", text |-> Written(NoSeparators(tokens))]}
                  \cup {[kind |-> "trunc",
                         text |-> Written(Take(tokens, Len(tokens) - k))] :
                            k \in 1..Closers(tokens)} :
               Start(<<Render(d), t.text>>,
                     [kind |-> t.kind, texts |-> <<Render(d), t.text>>, doc |-> d])
    \/ \E ts \in RawSeqs : \E g \in GapSets(Len(ts)) :
           Start(<<Written(ts), Spaced(ts, g, <<" ">>, 1)>>,
                 [kind |-> "tokens",
                  texts |-> <<Written(ts), Spaced(ts, g, <<" ">>, 1)>>,
                  doc |-> DNull])

SpecDoc == InitDoc /\ [][Next]_vars

\* Barewords at the three places a value is parsed at (the whole text, an
\* array element, the value of a member), followed by the end of the text
\* or by a character that ends the bareword.
WordLetters == {"t", "r", "u", "e", "x"}

Words ==
    Texts(WordLetters, MaxWord)
    \cup { <<"f", "a", "l", "s", "e">>, <<"n", "u", "l", "l">>,
           <<"f", "a", "l", "s">>, <<"n", "u", "l">>, <<"n", "u", "l", "l", "l">>,
           <<"t", "r", "u", "e", "x">>, <<"t", "r", "u", "e", "1">> }

Contexts == { <<>>, <<"[">>, <<"{", Quote, "a", Quote, ":">> }

Suffixes == { <<>>, <<",">>, <<"]">>, <<" ", "x">>, <<Quote>> }

InitWord ==
    \E ctx \in Contexts, w \in Words, suffix \in Suffixes :
        Start(<<ctx \o w \o suffix>>,
              [kind |-> "word", texts |-> <<ctx \o w \o suffix>>])

SpecWord == InitWord /\ [][Next]_vars

-----------------------------------------------------------------------------
(* Claims about every text (Spec, FairSpec).                               *)

Ended == status \in {"done", "abort"}

\* The process has come to an end: parse has returned for every text, or
\* the process was aborted, by the panic of parse_number or by a push that
\* found no memory.
Terminated == Ended \/ status = "oom"

\* C1: parse terminates on every finite text: each run comes to an end, so
\* the loops of parse_object and parse_array leave after finitely many
\* turns.  The end the claim names is a value returned or the panic of
\* parse_number; the abort of a push is taken as an end as well, so that a
\* run that breaks this statement is one that goes on for ever.
C1_ParseTerminates == <>Terminated

\* C3: parse aborts exactly when a parse_number call reconstructs a text
\* that is no float literal, and in every other case the run comes to its
\* end without that abort (as in C1, a run that breaks the second half is
\* one that goes on for ever).
C3_AbortIffBadNumber ==
    /\ [](status = "abort" <=> (numtext # <<>> /\ ~IsFloatLiteral(numtext)))
    /\ <>Terminated

\* The texts the number grammar of the specification describes: an optional
\* minus, digits, an optional point with digits, and an optional exponent
\* marker with an optional sign and digits.
IsNumberForm(t) ==
    LET t1 == ParseChar(t, "-").rest
        t2 == Drop(t1, RunIn(t1, Digits))
        t3 == IF t2 # <<>> /\ Head(t2) = "."
              THEN Drop(Tail(t2), RunIn(Tail(t2), Digits))
              ELSE t2
        t4 == IF t3 # <<>> /\ Head(t3) \in {"e", "E"}
              THEN LET u == Tail(t3)
                       w == IF u # <<>> /\ Head(u) \in {"+", "-"}
                            THEN Tail(u) ELSE u
                   IN  Drop(w, RunIn(w, Digits))
              ELSE t3
    IN  t4 = <<>>

LongestNumberPrefix(s) ==
    CHOOSE n \in 0..Len(s) :
        /\ IsNumberForm(Take(s, n))
        /\ \A k \in (n + 1)..Len(s) : ~IsNumberForm(Take(s, k))

LowerE(t) == [i \in 1..Len(t) |-> IF t[i] = "E" THEN "e" ELSE t[i]]

NumberStep ==
    /\ ParseValue
    /\ chars # <<>>
    /\ Head(chars) = "-" \/ IsDigit(Head(chars))

\* C8: parse_number consumes exactly the longest prefix of the cursor that
\* has the form of the number grammar, and reconstructs that prefix with E
\* written e.
C8_NumberConsumesGrammarPrefix ==
    [][NumberStep =>
         LET n == LongestNumberPrefix(chars)
         IN  /\ chars' = Drop(chars, n)
             /\ numtext' = LowerE(Take(chars, n))]_vars

\* The texts (Strings and keys) of a Document Value.
RECURSIVE TextsOf(_)
TextsOf(j) ==
    IF j.t = "String" THEN {j.v}
    ELSE IF j.t = "Array"
         THEN UNION {TextsOf(j.v[i]) : i \in 1..Len(j.v)}
    ELSE IF j.t = "Object"
         THEN UNION {{j.v[i][1]} \cup TextsOf(j.v[i][2]) : i \in 1..Len(j.v)}
    ELSE {}

\* C10: no String and no key of a returned Document Value holds a quote.
C10_NoQuoteInTexts ==
    \A i \in 1..Len(results) : \A text \in TextsOf(results[i]) : ~Has(text, Quote)

\* A quoted text with a backslash before its closing quote was returned:
\* the String ends at that quote and keeps the backslash.
C10_Witness ==
    /\ status = "done"
    /\ Len(src.texts[1]) >= 3
    /\ Take(src.texts[1], 3) = <<Quote, Backslash, Quote>>
    /\ results[1] = JString(<<Backslash>>)

\* C7: an insert into the map of parse_object sets the member's key to the
\* member's value, leaves every other key with its value, and leaves one
\* entry per key; the object returned is the map so built.
C7_LastWriteWins ==
    [][ParseObjectInsert =>
         LET old == Top.object
             new == Top'.object
         IN  /\ MapKeys(new) = MapKeys(old) \cup {ret.v[1]}
             /\ MapGet(new, ret.v[1]) = ret.v[2]
             /\ \A k \in MapKeys(old) \ {ret.v[1]} : MapGet(new, k) = MapGet(old, k)
             /\ Cardinality(MapKeys(new)) = Len(new)]_vars

\* The text {,:1 holds two members of key "" (the first with the empty
\* String, the second with 1): the object returned holds the second.
C7_Witness ==
    /\ status = "done"
    /\ src.texts[1] = <<"{", ",", ":", "1">>
    /\ results[1] = JObject(<< << <<>>, JNumber(F64One) >> >>)


-----------------------------------------------------------------------------
(* Claims about JSON documents (SpecDoc).                                  *)

Returned(i) == Len(results) >= i

\* C2 as stated: parse returns, for every valid JSON document, the value
\* the document denotes (first text of every run that starts from one).
C2_ValidDocumentParsed ==
    src.kind # "tokens" =>
        /\ status \notin {"abort", "oom"}
        /\ Returned(1) => results[1] = Sem(src.doc)

\* C2 amended: the same for every valid JSON document in which no text
\* between quotes holds an (escaped) quote.
C2_PlainDocumentParsed ==
    (src.kind # "tokens" /\ Plain(src.doc)) =>
        /\ status \notin {"abort", "oom"}
        /\ Returned(1) => results[1] = Sem(src.doc)

\* [1,[2,3],{"x":[]}] has been parsed to Array[1, Array[2, 3], Object{x: Array[]}].
C2_Witness ==
    /\ status = "done"
    /\ src.doc = NestedDoc
    /\ results[1] =
           JArray(<< JNumber(F64One),
                     JArray(<<JNumber(F64Two), JNumber(F64Three)>>),
                     JObject(<< <<<<"x">>, JArray(<<>>)>> >>) >>)

\* Both texts of the run were parsed, to the same value.
SameValue ==
    /\ status \notin {"abort", "oom"}
    /\ Returned(2) => results[1] = results[2]

\* C4 as stated: two texts that differ only in whitespace between adjacent
\* tokens are parsed to the same value.
C4_WhitespaceInsignificant == src.kind \in {"ws", "tokens"} => SameValue

\* C4 amended: whitespace between adjacent tokens of a valid JSON document
\* with no (escaped) quote between quotes does not change the value.
C4_WhitespaceInsignificantInPlainDocument ==
    (src.kind = "ws" /\ Plain(src.doc)) => SameValue

\* {"a":1} and { "a" : 1 } have both been parsed to Object{a: 1}.
C4_Witness ==
    /\ status = "done"
    /\ src.kind = "ws"
    /\ src.texts[2] = <<"{", " ", Quote, "a", Quote, " ", ":", " ", "1", " ", "}">>
    /\ results[2] = JObject(<< <<<<"a">>, JNumber(F64One)>> >>)
    /\ results[1] = results[2]

\* C5 as stated: a valid JSON document without some of its last closing
\* delimiters is parsed, without abort, to the value of the whole document.
C5_TruncatedContainer == src.kind = "trunc" => SameValue

\* C5 amended: the same for documents with no (escaped) quote between quotes.
C5_TruncatedPlainContainer == (src.kind = "trunc" /\ Plain(src.doc)) => SameValue

\* {"a":1 has been parsed to Object{a: 1}, as {"a":1} was.
C5_Witness ==
    /\ status = "done"
    /\ src.kind = "trunc"
    /\ src.texts[2] = <<"{", Quote, "a", Quote, ":", "1">>
    /\ results[2] = JObject(<< <<<<"a">>, JNumber(F64One)>> >>)
    /\ results[1] = results[2]

\* C9 as stated: a valid JSON document with every separator made a space is
\* parsed, without abort, to the value of the document.
C9_SeparatorsOptional == src.kind = "nosep" => SameValue

\* C9 amended: the same for documents with no (escaped) quote between quotes.
C9_SeparatorsOptionalInPlainDocument ==
    (src.kind = "nosep" /\ Plain(src.doc)) => SameValue

\* {"a":1,"a":"a"} was parsed with a space for the colons and the comma, to
\* the same Object{a: "a"}.
C9_Witness ==
    /\ status = "done"
    /\ src.kind = "nosep"
    /\ src.texts[2] = <<"{", Quote, "a", Quote, " ", "1", " ",
                        Quote, "a", Quote, " ", Quote, "a", Quote, "}">>
    /\ results[2] = JObject(<< <<<<"a">>, JString(<<"a">>)>> >>)
    /\ results[1] = results[2]


-----------------------------------------------------------------------------
(* Claims about barewords (SpecWord).                                      *)

\* parse_value is at a character that selects none of parse_object,
\* parse_array, parse_string and parse_number.
KeywordStep ==
    /\ ParseValue
    /\ chars # <<>>
    /\ Head(chars) \notin {"{", "[", Quote, "-"} \cup Digits

\* The length of the maximal run of alphanumeric characters s starts with.
AlnumRun(s) ==
    CHOOSE n \in 0..Len(s) :
        /\ \A i \in 1..n : IsAlphanumeric(s[i])
        /\ n < Len(s) => ~IsAlphanumeric(s[n + 1])

\* C6: at such a character parse_value consumes exactly the maximal run of
\* alphanumeric characters and returns True, False or Null when the run is
\* true, false or null, and otherwise a String holding the run; at the end
\* of the text it consumes nothing and returns Null.
C6_BarewordFallback ==
    [][/\ KeywordStep =>
            LET run == Take(chars, AlnumRun(chars))
            IN  /\ chars' = Drop(chars, Len(run))
                /\ ret' = CASE run = <<"t", "r", "u", "e">> -> JTrue
                            [] run = <<"f", "a", "l", "s", "e">> -> JFalse
                            [] run = <<"n", "u", "l", "l">> -> JNull
                            [] OTHER -> JString(run)
       /\ (ParseValue /\ chars = <<>>) => (chars' = chars /\ ret' = JNull)]_vars

\* truex has been parsed to the String truex.
C6_Witness ==
    /\ status = "done"
    /\ src.texts[1] = <<"t", "r", "u", "e", "x">>
    /\ results[1] = JString(<<"t", "r", "u", "e", "x">>)

=============================================================================
